---- MODULE Spec2Model ----
(***************************************************************************)
(* Model of engine/install.go: the installer that lists the servers in    *)
(* the created state, moves each to staging, and bootstraps the agent     *)
(* container on each in its own goroutine.                                 *)
(*                                                                         *)
(* Collaborators that are not part of install.go are modelled as the       *)
(* environment:                                                            *)
(*   - the server store (autoscaler.ServerStore): Update either commits    *)
(*     the whole record or fails and leaves the stored record untouched;   *)
(*     ListState returns fresh copies of the stored records, in store      *)
(*     (identifier) order;                                                 *)
(*   - the docker client (docker.io/go-docker): every call either succeeds *)
(*     or fails; a call issued with a context that is already done fails   *)
(*     with the context's error, as the go-docker HTTP client does; the    *)
(*     stream a successful ImagePull returns is read to its end or until   *)
(*     a read fails;                                                       *)
(*   - the context: it can be cancelled or pass its deadline at any time   *)
(*     after Install was called with it.                                   *)
(*                                                                         *)
(* The installer's field volumes is shared by all goroutines. Line 134    *)
(* reads and assigns it without synchronisation; the model takes the read *)
(* and the assignment as two steps, so that an append can build on a      *)
(* value another goroutine has replaced in between. Reads that see a      *)
(* partly written slice header are not modelled.                           *)
(***************************************************************************)
EXTENDS Integers, Sequences, FiniteSets, TLC

\* Bounds of the model.
NumServers == 2
MaxCalls == 2
MaxWorkers == 2
MaxProbes == 2
MaxPaths == 3

\* time.Minute, in seconds.
Minute == 60

Servers == 1..NumServers
Calls == 1..MaxCalls

\* autoscaler.ServerState values.
StateCreated == "created"
StateStaging == "staging"
StateRunning == "running"
StateError == "error"

\* Error values. NilErr is Go's nil error; the others are the texts of
\* the errors the collaborators return.
NilErr == "<nil>"
ErrStore == "store: update failed"
ErrClient == "client: cannot create"
ErrList == "docker: cannot connect"
ErrPull == "docker: pull failed"
ErrStream == "unexpected EOF"
ErrCreate == "docker: create failed"
ErrStart == "docker: start failed"
ErrCanceled == "context canceled"
ErrDeadline == "context deadline exceeded"

VARIABLES
  store,      \* the server store: Servers -> record [state, error]
  ipc,        \* position of each Install invocation: "idle", "loop", "done"
  pending,    \* the part of the listed slice the loop has not yet visited
  listed,     \* the set of servers ListState returned to the invocation
  ret,        \* the value the invocation returned ("none" while running)
  ctx,        \* ctx.Err() of the invocation's context (NilErr while live)
  inst,       \* the *autoscaler.Server objects the invocation holds
  pc,         \* position of the worker goroutine of (invocation, server)
  interval,   \* the worker's local variable interval
  attempts,   \* number of ContainerList calls made (counted up to MaxProbes)
  did,        \* the client calls the worker has issued
  lastErr,    \* the error value the worker obtained last (NilErr: none)
  wrote,      \* outcome of the worker's final store update
  wg,         \* the sync.WaitGroup counter
  overlap,    \* whether two Install invocations have overlapped in time
  volumes,    \* the installer's field volumes (i.volumes)
  binds,      \* HostConfig.Binds of the latest container configuration
  vols,       \* Config.Volumes of the latest container configuration
  seen,       \* the value of i.volumes the worker read on line 134
  stream      \* the worker's local rc: what became of the pulled stream

vars == <<store, ipc, pending, listed, ret, ctx, inst, pc, interval, attempts,
          did, lastErr, wrote, wg, overlap, volumes, binds, vols,
          seen, stream>>

ivars == <<ipc, pending, listed, ret>>
wvars == <<pc, interval, attempts, did, lastErr, wrote>>
mvars == <<volumes, binds, vols, seen, stream>>

Server(st, er) == [state |-> st, error |-> er]

Min(a, b) == IF a < b THEN a ELSE b

\* The servers of the store that are in state st, in store order.
RECURSIVE ListFrom(_, _, _)
ListFrom(st, s, n) ==
  IF s > n THEN <<>>
  ELSE IF store[s].state = st THEN <<s>> \o ListFrom(st, s + 1, n)
       ELSE ListFrom(st, s + 1, n)

\* servers.List: every server of the store, whatever its state.
ListAll(st) == [k \in 1..NumServers |-> k]

\* servers.ListState(ctx, st), line 44.
ListState(st) == ListFrom(st, 1, NumServers)

Range(q) == {q[k] : k \in 1..Len(q)}

\* servers.Update(ctx, server): the stored record after the call.
Update(s, rec, ok) == IF ok THEN [store EXCEPT ![s] = rec] ELSE store

----
\* toVol, lines 203-218, and splitVolumeParts, lines 220-239. The pattern
\* is matched against the sequence of the characters of a string.

\* The characters of the class \w.
WordChars ==
  {"a", "b", "c", "d", "e", "f", "g", "h", "i", "j", "k", "l", "m", "n",
   "o", "p", "q", "r", "s", "t", "u", "v", "w", "x", "y", "z",
   "A", "B", "C", "D", "E", "F", "G", "H", "I", "J", "K", "L", "M", "N",
   "O", "P", "Q", "R", "S", "T", "U", "V", "W", "X", "Y", "Z",
   "0", "1", "2", "3", "4", "5", "6", "7", "8", "9", "_"}

\* The characters of the class [rwom].
ModeChars == {"r", "w", "o", "m"}

\* The number of characters other than ch that follow one another in str
\* from position p on: the longest match of [^ch]* at p.
RECURSIVE RunNot(_, _, _)
RunNot(str, p, ch) ==
  IF p > Len(str) \/ str[p] = ch THEN 0 ELSE 1 + RunNot(str, p + 1, ch)

\* The longest match of a class repeated with * at position p.
RECURSIVE RunIn(_, _, _)
RunIn(str, p, class) ==
  IF p > Len(str) \/ str[p] \notin class THEN 0
  ELSE 1 + RunIn(str, p + 1, class)

\* n, n - 1, ..., 0: the lengths a greedy * of longest match n tries.
RECURSIVE Down(_)
Down(n) == IF n = 0 THEN <<0>> ELSE <<n>> \o Down(n - 1)

\* The lengths (?:[\w]\:)? can match at position p, in the order the
\* leftmost-first matcher tries them: the prefix before the empty match.
Drive(str, p) ==
  IF p + 1 <= Len(str) /\ str[p] \in WordChars /\ str[p + 1] = ":"
  THEN <<2, 0>> ELSE <<0>>

\* The lengths ((?:[\w]\:)?[^\:]*) can match at position p, in the order
\* the matcher tries them.
RECURSIVE PathLens(_, _, _)
PathLens(str, p, k) ==
  LET D == Drive(str, p)
  IN IF k > Len(D) THEN <<>>
     ELSE LET rest == Down(RunNot(str, p + D[k], ":"))
          IN [j \in 1..Len(rest) |-> D[k] + rest[j]]
               \o PathLens(str, p, k + 1)

\* The first candidate length of the first group that is followed by the
\* separating colon; 0 candidates when the pattern does not match.
FirstPath(str) ==
  LET L == PathLens(str, 1, 1)
      Ok(j) == L[j] + 1 <= Len(str) /\ str[L[j] + 1] = ":"
  IN {j \in 1..Len(L) : Ok(j) /\ \A i \in 1..(j - 1) : ~Ok(i)}

\* pattern.MatchString(volumeParts), line 227.
MatchString(str) == FirstPath(str) # {}

\* pattern.FindStringSubmatch(volumeParts)[1:], line 228: the three
\* groups of the leftmost-first match; a group that took no part in the
\* match is the empty string.
FindStringSubmatch(str) ==
  LET L == PathLens(str, 1, 1)
      n1 == L[CHOOSE j \in FirstPath(str) : TRUE]
      p2 == n1 + 2
      n2 == PathLens(str, p2, 1)[1]
      p3 == p2 + n2
      has3 == p3 <= Len(str) /\ str[p3] = ":"
      n3 == IF has3 THEN RunIn(str, p3 + 1, ModeChars) ELSE 0
  IN <<SubSeq(str, 1, n1), SubSeq(str, p2, p2 + n2 - 1),
       SubSeq(str, p3 + 1, p3 + n3)>>

\* The items of results that are not empty, lines 229-234.
cleanResults(results) == SelectSeq(results, LAMBDA item : item # <<>>)

\* strings.Split(str, ":"), line 237.
RECURSIVE Split(_, _)
Split(str, sep) ==
  LET n == RunNot(str, 1, sep)
  IN IF n = Len(str) THEN <<str>>
     ELSE <<SubSeq(str, 1, n)>> \o Split(SubSeq(str, n + 2, Len(str)), sep)

\* splitVolumeParts, lines 221-239. The pattern compiles, so the error
\* result is always nil.
splitVolumeParts(volumeParts) ==
  IF MatchString(volumeParts)
  THEN cleanResults(FindStringSubmatch(volumeParts))
  ELSE Split(volumeParts, ":")

\* The bind specification install adds to the volume list, line 134.
Sock == "/var/run/docker.sock:/var/run/docker.sock"

\* The characters of the path "/var/run/docker.sock".
SockPath ==
  <<"/", "v", "a", "r", "/", "r", "u", "n", "/",
    "d", "o", "c", "k", "e", "r", ".", "s", "o", "c", "k">>

\* The characters of the strings that occur as bind specifications.
Chars(str) ==
  CASE str = "a:b" -> <<"a", ":", "b">>
    [] str = "a:b:ro" -> <<"a", ":", "b", ":", "r", "o">>
    [] str = "C:\\x:C:\\y" -> <<"C", ":", "\\", "x", ":", "C", ":", "\\", "y">>
    [] str = "ab:cd:ro" -> <<"a", "b", ":", "c", "d", ":", "r", "o">>
    [] str = "noseparator" ->
         <<"n", "o", "s", "e", "p", "a", "r", "a", "t", "o", "r">>
    [] str = "/var/run/docker.sock:/var/run/docker.sock" ->
         SockPath \o <<":">> \o SockPath

\* splitVolumeParts(path) for every string that occurs as a bind
\* specification, line 209.
PartsOf ==
  [str \in {"a:b", "a:b:ro", "C:\\x:C:\\y", "ab:cd:ro", "noseparator",
            "/var/run/docker.sock:/var/run/docker.sock"}
     |-> splitVolumeParts(Chars(str))]

\* toVol taking the first component of an entry for its name.
TargetIsSource(parts) == parts[1]

\* The volume name toVol takes from the parts of an entry, line 216.
Target(parts) == parts[2]

\* The loop of toVol from entry k on, lines 207-216.
RECURSIVE toVolFrom(_, _, _)
toVolFrom(paths, k, set) ==
  IF k > Len(paths) THEN set
  ELSE LET parts == PartsOf[paths[k]]
       IN IF Len(parts) < 2 THEN toVolFrom(paths, k + 1, set)
          ELSE toVolFrom(paths, k + 1, set \cup {Target(parts)})

\* toVol, lines 205-218.
toVol(paths) == toVolFrom(paths, 1, {})

\* Bind specifications an operator can configure.
SpecAB == "a:b"
SpecABRO == "a:b:ro"
SpecDrive == "C:\\x:C:\\y"
SpecABCDRO == "ab:cd:ro"
SpecNoSep == "noseparator"
BindSpecs == {SpecAB, SpecABRO, SpecDrive, SpecABCDRO, SpecNoSep}

\* The lists of at most MaxPaths bind specifications.
PathLists == UNION {[1..n -> BindSpecs] : n \in 0..MaxPaths}

\* The volume list the installer is constructed with.
BaseVolumes == <<SpecAB>>

----
Init ==
  /\ store = [s \in Servers |-> Server(StateCreated, "")]
  /\ ipc = [c \in Calls |-> "idle"]
  /\ pending = [c \in Calls |-> <<>>]
  /\ listed = [c \in Calls |-> {}]
  /\ ret = [c \in Calls |-> "none"]
  /\ ctx = [c \in Calls |-> NilErr]
  /\ inst = [c \in Calls |-> [s \in Servers |-> Server(StateCreated, "")]]
  /\ pc = [c \in Calls |-> [s \in Servers |-> "none"]]
  /\ interval = [c \in Calls |-> [s \in Servers |-> 0]]
  /\ attempts = [c \in Calls |-> [s \in Servers |-> 0]]
  /\ did = [c \in Calls |-> [s \in Servers |-> {}]]
  /\ lastErr = [c \in Calls |-> [s \in Servers |-> NilErr]]
  /\ wrote = [c \in Calls |-> [s \in Servers |-> "none"]]
  /\ wg = 0
  /\ overlap = FALSE
  /\ volumes = BaseVolumes
  /\ binds = <<>>
  /\ vols = {}
  /\ seen = [c \in Calls |-> [s \in Servers |-> <<>>]]
  /\ stream = [c \in Calls |-> [s \in Servers |-> "none"]]

----
\* Install, lines 41-68.

\* The state Install asks ListState for (line 44).
ListedState == StateCreated

\* Install is called and ListState succeeds (lines 44-47).
InstallList(c) ==
  /\ ipc[c] = "idle"
  /\ c > 1 => ipc[c - 1] # "idle"
  /\ ipc' = [ipc EXCEPT ![c] = "loop"]
  /\ pending' = [pending EXCEPT ![c] = ListState(ListedState)]
  /\ listed' = [listed EXCEPT ![c] = Range(ListState(ListedState))]
  /\ inst' = [inst EXCEPT ![c] =
                [s \in Servers |-> IF s \in Range(ListState(ListedState))
                                   THEN store[s] ELSE inst[c][s]]]
  /\ overlap' = (overlap \/ \E d \in Calls : ipc[d] = "loop")
  /\ UNCHANGED <<store, ret, ctx, wvars, wg, mvars>>

\* Install is called and ListState fails (lines 44-47).
InstallListFail(c) ==
  /\ ipc[c] = "idle"
  /\ c > 1 => ipc[c - 1] # "idle"
  /\ ipc' = [ipc EXCEPT ![c] = "done"]
  /\ ret' = [ret EXCEPT ![c] = ErrStore]
  /\ UNCHANGED <<store, pending, listed, ctx, inst, wvars, wg, overlap, mvars>>

\* The counter after i.wg.Add(1), line 61.
wgAdd(n) == n + 1

\* The goroutines launched so far.
Launched == {w \in Calls \X Servers : pc[w[1]][w[2]] # "none"}

\* The go statement placed before the check of Update's error.
LaunchesAnyway(err) == TRUE

\* Whether the iteration reaches the go statement after Update returned
\* err (lines 52-62).
Launches(err) == err = NilErr

\* One iteration of the loop whose Update succeeds (lines 49-66): the
\* server is staged and its goroutine is launched.
InstallStage(c) ==
  /\ ipc[c] = "loop"
  /\ pending[c] # <<>>
  /\ Cardinality(Launched) < MaxWorkers
  /\ Launches(NilErr)
  /\ LET s == Head(pending[c])
         rec == [inst[c][s] EXCEPT !.state = StateStaging]
     IN /\ inst' = [inst EXCEPT ![c][s] = rec]
        /\ store' = Update(s, rec, TRUE)
        /\ wg' = wgAdd(wg)
        /\ pc' = [pc EXCEPT ![c][s] = "client"]
  /\ pending' = [pending EXCEPT ![c] = Tail(pending[c])]
  /\ UNCHANGED <<ipc, listed, ret, ctx, interval, attempts, did, lastErr,
                 wrote, overlap, mvars>>

\* One iteration of the loop whose Update fails (lines 49-59): Install
\* returns the error.
InstallStageFail(c) ==
  /\ ipc[c] = "loop"
  /\ pending[c] # <<>>
  /\ LET s == Head(pending[c])
         rec == [inst[c][s] EXCEPT !.state = StateStaging]
     IN /\ inst' = [inst EXCEPT ![c][s] = rec]
        /\ store' = Update(s, rec, FALSE)
        /\ IF Launches(ErrStore)
           THEN /\ wg' = wgAdd(wg)
                /\ pc' = [pc EXCEPT ![c][s] = "client"]
           ELSE UNCHANGED <<wg, pc>>
  /\ ipc' = [ipc EXCEPT ![c] = "done"]
  /\ ret' = [ret EXCEPT ![c] = ErrStore]
  /\ UNCHANGED <<pending, listed, ctx, interval, attempts, did, lastErr,
                 wrote, overlap, mvars>>

\* The loop is over: Install returns nil (line 67).
InstallReturn(c) ==
  /\ ipc[c] = "loop"
  /\ pending[c] = <<>>
  /\ ipc' = [ipc EXCEPT ![c] = "done"]
  /\ ret' = [ret EXCEPT ![c] = NilErr]
  /\ UNCHANGED <<store, pending, listed, ctx, inst, wvars, wg, overlap, mvars>>

\* The caller cancels the context, or its deadline passes.
Cancel(c) ==
  /\ ipc[c] # "idle"
  /\ ctx[c] = NilErr
  /\ \E e \in {ErrCanceled, ErrDeadline} : ctx' = [ctx EXCEPT ![c] = e]
  /\ UNCHANGED <<store, ivars, inst, wvars, wg, overlap, mvars>>

----
\* install, lines 70-192, and errorUpdate, lines 194-201.

\* errorUpdate without line 196: the state is left as it was.
errorUpdateKeepsState(rec, err) ==
  IF err # NilErr THEN [rec EXCEPT !.error = err] ELSE rec

\* errorUpdate putting the server back to created, to be picked up by
\* the next Install.
errorUpdateRequeues(rec, err) ==
  IF err # NilErr THEN Server(StateCreated, err) ELSE rec

\* errorUpdate without line 197: the error text is not recorded.
errorUpdateNoText(rec, err) ==
  IF err # NilErr THEN [rec EXCEPT !.state = StateError] ELSE rec

\* errorUpdate, lines 194-201: the server object after the call.
errorUpdate(rec, err) ==
  IF err # NilErr THEN Server(StateError, err) ELSE rec

\* Whether errorUpdate calls servers.Update (line 195).
errorUpdateWrites(err) == err # NilErr

\* The outcomes of a docker client call issued with the context of
\* invocation c: nil or the call's own error e while the context is live,
\* the context's error once it is done.
CallResults(c, e) == IF ctx[c] # NilErr THEN {ctx[c]} ELSE {NilErr, e}

\* A goroutine that returns from install without calling wg.Done.
wgDoneMissing(n) == n

\* The counter after i.wg.Done(), line 64.
wgDone(n) == n - 1

\* install returns through errorUpdate(ctx, instance, err); ok tells
\* whether the store accepts the update. The goroutine then calls
\* wg.Done (line 64).
Exit(c, s, err, ok) ==
  /\ inst' = [inst EXCEPT ![c][s] = errorUpdate(inst[c][s], err)]
  /\ store' = Update(s, errorUpdate(inst[c][s], err),
                     ok /\ errorUpdateWrites(err))
  /\ wrote' = [wrote EXCEPT ![c][s] =
                 IF ok /\ errorUpdateWrites(err) THEN "ok" ELSE "failed"]
  /\ pc' = [pc EXCEPT ![c][s] = "done"]
  /\ wg' = wgDone(wg)

\* install without its early returns: an error is logged and the next
\* step runs.
AfterCallIgnoresError(err, next) == next

\* Where install goes after a call returned err: to the next step, or out
\* through errorUpdate (lines 77-81, 121-126, 167-172, 179-184).
AfterCall(err, next) == IF err # NilErr THEN "done" ELSE next

\* i.client(instance), lines 76-81, and the initialisation of interval,
\* line 87.
WClient(c, s) ==
  /\ pc[c][s] = "client"
  /\ did' = [did EXCEPT ![c][s] = @ \cup {"client"}]
  /\ \E err \in {NilErr, ErrClient} :
       /\ lastErr' = [lastErr EXCEPT ![c][s] = err]
       /\ IF AfterCall(err, "probe") = "done"
          THEN /\ \E ok \in BOOLEAN : Exit(c, s, err, ok)
               /\ UNCHANGED interval
          ELSE /\ pc' = [pc EXCEPT ![c][s] = "probe"]
               /\ interval' = [interval EXCEPT ![c][s] = 0]
               /\ UNCHANGED <<store, inst, wrote, wg>>
  /\ UNCHANGED <<ivars, ctx, attempts, overlap, mvars>>

\* Line 96 passing a nil error to errorUpdate.
CtxErrNil(c) == NilErr

\* ctx.Err() as passed to errorUpdate on line 96.
CtxErr(c) == ctx[c]

\* The select takes the ctx.Done case, lines 91-96.
WProbeCtxDone(c, s) ==
  /\ pc[c][s] = "probe"
  /\ ctx[c] # NilErr
  /\ lastErr' = [lastErr EXCEPT ![c][s] = ctx[c]]
  /\ \E ok \in BOOLEAN : Exit(c, s, CtxErr(c), ok)
  /\ UNCHANGED <<ivars, ctx, interval, attempts, did, overlap, mvars>>

\* Whether a ContainerList call that returned err leaves the poller loop
\* (lines 104-112).
BreakPoller(err) == err = NilErr

\* Line 98 assigning time.Second instead of time.Minute.
NextIntervalSecond == Minute \div 60

\* The value assigned to interval in the timer case (line 98).
NextInterval == Minute

\* The select takes the time.After(interval) case, lines 97-112: the
\* timer of `interval` has fired and ContainerList is called.
WProbe(c, s) ==
  /\ pc[c][s] = "probe"
  /\ interval' = [interval EXCEPT ![c][s] = NextInterval]
  /\ attempts' = [attempts EXCEPT ![c][s] = Min(@ + 1, MaxProbes)]
  /\ did' = [did EXCEPT ![c][s] = @ \cup {"list"}]
  /\ \E err \in CallResults(c, ErrList) :
       /\ lastErr' = [lastErr EXCEPT ![c][s] = err]
       /\ pc' = [pc EXCEPT ![c][s] =
                   IF BreakPoller(err) THEN "pull" ELSE "probe"]
  /\ UNCHANGED <<store, ivars, ctx, inst, wrote, wg, overlap, mvars>>

\* Lines 127-128 when ImagePull returned the error err and io.Copy the
\* error cerr: without a stream ("none") nothing is read; a stream is
\* read to its end ("drained") or until the read fails ("broken"), and
\* then closed. The error of io.Copy is not looked at.
Drain(err, cerr) ==
  IF err # NilErr THEN "none"
  ELSE IF cerr = NilErr THEN "drained" ELSE "broken"

\* client.ImagePull, io.Copy and rc.Close, lines 120-128.
WPull(c, s) ==
  /\ pc[c][s] = "pull"
  /\ did' = [did EXCEPT ![c][s] = @ \cup {"pull"}]
  /\ \E err \in CallResults(c, ErrPull), cerr \in {NilErr, ErrStream} :
       /\ lastErr' = [lastErr EXCEPT ![c][s] = err]
       /\ stream' = [stream EXCEPT ![c][s] = Drain(err, cerr)]
       /\ IF AfterCall(err, "append") = "done"
          THEN \E ok \in BOOLEAN : Exit(c, s, err, ok)
          ELSE /\ pc' = [pc EXCEPT ![c][s] = "append"]
               /\ UNCHANGED <<store, inst, wrote, wg>>
  /\ UNCHANGED <<ivars, ctx, interval, attempts, overlap, volumes, binds,
                 vols, seen>>

\* The mounts of the container configuration built from the volume list
\* l: Config.Volumes (line 149) and HostConfig.Binds (line 161).
Mounts(l) ==
  /\ binds' = l
  /\ vols' = toVol(l)

\* Line 134, first half: the worker reads i.volumes. The field is shared
\* by all workers and nothing synchronises line 134, so another worker
\* can assign the field between this read and the assignment below. The
\* closed stream rc is not used any more.
WAppend(c, s) ==
  /\ pc[c][s] = "append"
  /\ seen' = [seen EXCEPT ![c][s] = volumes]
  /\ stream' = [stream EXCEPT ![c][s] = "none"]
  /\ pc' = [pc EXCEPT ![c][s] = "create"]
  /\ UNCHANGED <<store, ivars, ctx, inst, interval, attempts, did, lastErr,
                 wrote, wg, overlap, volumes, binds, vols>>

\* Line 134, second half: the result of append is assigned to i.volumes;
\* then client.ContainerCreate is called with the mounts read from the
\* field, lines 135-172.
WCreate(c, s) ==
  /\ pc[c][s] = "create"
  /\ volumes' = Append(seen[c][s], Sock)
  /\ seen' = [seen EXCEPT ![c][s] = <<>>]
  /\ Mounts(volumes')
  /\ did' = [did EXCEPT ![c][s] = @ \cup {"create"}]
  /\ \E err \in CallResults(c, ErrCreate) :
       /\ lastErr' = [lastErr EXCEPT ![c][s] = err]
       /\ IF AfterCall(err, "start") = "done"
          THEN \E ok \in BOOLEAN : Exit(c, s, err, ok)
          ELSE /\ pc' = [pc EXCEPT ![c][s] = "start"]
               /\ UNCHANGED <<store, inst, wrote, wg>>
  /\ UNCHANGED <<ivars, ctx, interval, attempts, overlap, stream>>

\* install without line 190: the state is not set before the update.
MarkRunningNoop(rec) == rec

\* The server object after line 190.
MarkRunning(rec) == [rec EXCEPT !.state = StateRunning]

\* client.ContainerStart and, when it succeeds, the running update,
\* lines 178-191; the goroutine then calls wg.Done (line 64).
WStart(c, s) ==
  /\ pc[c][s] = "start"
  /\ did' = [did EXCEPT ![c][s] = @ \cup {"start"}]
  /\ \E err \in CallResults(c, ErrStart) : \E ok \in BOOLEAN :
       /\ lastErr' = [lastErr EXCEPT ![c][s] = err]
       /\ IF AfterCall(err, "running") = "done"
          THEN Exit(c, s, err, ok)
          ELSE /\ inst' = [inst EXCEPT ![c][s] = MarkRunning(inst[c][s])]
               /\ store' = Update(s, MarkRunning(inst[c][s]), ok)
               /\ wrote' = [wrote EXCEPT ![c][s] =
                              IF ok THEN "ok" ELSE "failed"]
               /\ pc' = [pc EXCEPT ![c][s] = "done"]
               /\ wg' = wgDone(wg)
  /\ UNCHANGED <<ivars, ctx, interval, attempts, overlap, mvars>>

Next ==
  \/ \E c \in Calls : InstallList(c)
  \/ \E c \in Calls : InstallListFail(c)
  \/ \E c \in Calls : InstallStage(c)
  \/ \E c \in Calls : InstallStageFail(c)
  \/ \E c \in Calls : InstallReturn(c)
  \/ \E c \in Calls : Cancel(c)
  \/ \E c \in Calls, s \in Servers : WClient(c, s)
  \/ \E c \in Calls, s \in Servers : WProbeCtxDone(c, s)
  \/ \E c \in Calls, s \in Servers : WProbe(c, s)
  \/ \E c \in Calls, s \in Servers : WPull(c, s)
  \/ \E c \in Calls, s \in Servers : WAppend(c, s)
  \/ \E c \in Calls, s \in Servers : WCreate(c, s)
  \/ \E c \in Calls, s \in Servers : WStart(c, s)

Spec == Init /\ [][Next]_vars

\* The steps of worker (c, s) that need nothing from the environment but
\* to be scheduled: a call that returns, and the ctx.Done case of the
\* select once the context is done.
WStep(c, s) ==
  \/ WClient(c, s)
  \/ WProbeCtxDone(c, s)
  \/ WPull(c, s)
  \/ WAppend(c, s)
  \/ WCreate(c, s)
  \/ WStart(c, s)

\* The steps of Install after the listing.
IStep(c) == InstallStage(c) \/ InstallStageFail(c) \/ InstallReturn(c)

\* The scheduling the Go runtime guarantees: a runnable goroutine
\* eventually runs, a call eventually returns, and a select whose
\* ctx.Done case stays ready eventually takes it. Nothing makes a
\* ContainerList call succeed, so the timer case carries no fairness.
Fairness ==
  /\ \A c \in Calls : WF_vars(IStep(c))
  /\ \A c \in Calls, s \in Servers : WF_vars(WStep(c, s))

\* Install is called while no other invocation is between its listing
\* and its return.
InstallListAlone(c) == InstallList(c) /\ ~overlap'

\* The steps of the behaviours in which the Install invocations follow
\* one another, as in a caller that invokes Install from a single loop.
NextSequential ==
  \/ \E c \in Calls : InstallListAlone(c)
  \/ \E c \in Calls : InstallListFail(c)
  \/ \E c \in Calls : InstallStage(c)
  \/ \E c \in Calls : InstallStageFail(c)
  \/ \E c \in Calls : InstallReturn(c)
  \/ \E c \in Calls : Cancel(c)
  \/ \E c \in Calls, s \in Servers : WClient(c, s)
  \/ \E c \in Calls, s \in Servers : WProbeCtxDone(c, s)
  \/ \E c \in Calls, s \in Servers : WProbe(c, s)
  \/ \E c \in Calls, s \in Servers : WPull(c, s)
  \/ \E c \in Calls, s \in Servers : WAppend(c, s)
  \/ \E c \in Calls, s \in Servers : WCreate(c, s)
  \/ \E c \in Calls, s \in Servers : WStart(c, s)

LiveSpec == Init /\ [][NextSequential]_vars /\ Fairness

\* A container configuration is built from the volume list l, as lines
\* 149 and 161 do with i.volumes, and nothing else happens.
ConfigureMounts(l) ==
  /\ Mounts(l)
  /\ UNCHANGED <<store, ivars, ctx, inst, wvars, wg, overlap, volumes, seen,
                 stream>>

NextVol == \E l \in PathLists : ConfigureMounts(l)

\* toVol applied to every list of at most MaxPaths bind specifications.
VolSpec == Init /\ [][NextVol]_vars

----
\* Properties.

States == {StateCreated, StateStaging, StateRunning, StateError}
Terminal == {StateRunning, StateError}

\* The client calls of install, in program order.
Steps == <<"client", "list", "pull", "create", "start">>
StepIdx(x) == CHOOSE k \in 1..Len(Steps) : Steps[k] = x
Later(x) == {Steps[k] : k \in (StepIdx(x) + 1)..Len(Steps)}

\* The worker's last client call was x and it returned an error.
FailedAt(c, s, x) ==
  /\ x \in did[c][s]
  /\ Later(x) \cap did[c][s] = {}
  /\ lastErr[c][s] # NilErr

\* The worker went through every call without an error and left install.
Succeeded(c, s) ==
  /\ pc[c][s] = "done"
  /\ "start" \in did[c][s]
  /\ lastErr[c][s] = NilErr

\* C1: if the staging update fails for a server of the batch, Install
\* returns an error and no worker of that invocation was launched, not
\* even for the servers it staged before the failure.
C1_StagingFailureLaunchesNoWorker ==
  \A c \in Calls :
    (ipc[c] = "done" /\ ret[c] = ErrStore)
      => \A s \in Servers : pc[c][s] = "none"

\* C2: every staging transition of the batch has happened before any
\* worker of the batch issues its first bootstrap call.
C2_AllStagedBeforeAnyWorkerBegins ==
  \A c \in Calls :
    (\E s \in Servers : did[c][s] # {}) => pending[c] = <<>>

\* C3: when the pull, create or start call returns an error, the worker
\* is finished at once, its server record is in the error state with
\* that error's (non-empty) text, no later call was issued, and the
\* stored record is that record whenever the update was accepted.
C3_ProvisioningFailureEndsInError ==
  \A c \in Calls, s \in Servers : \A x \in {"pull", "create", "start"} :
    FailedAt(c, s, x) =>
      /\ pc[c][s] = "done"
      /\ inst[c][s] = Server(StateError, lastErr[c][s])
      /\ lastErr[c][s] # ""
      /\ (wrote[c][s] = "ok" /\ ~overlap) => store[s] = inst[c][s]

C3_Witness ==
  \E c \in Calls, s \in Servers :
    /\ FailedAt(c, s, "create")
    /\ pc[c][s] = "done"
    /\ lastErr[c][s] = ErrCreate
    /\ store[s] = Server(StateError, ErrCreate)

\* The step in which worker (c, s) leaves install after a successful
\* ContainerStart.
FinishesRunning(c, s) ==
  /\ pc[c][s] = "start"
  /\ pc'[c][s] = "done"
  /\ lastErr'[c][s] = NilErr

\* C4 as stated: a fully successful bootstrap sequence leaves the stored
\* record in the running state with no error message.
C4_SuccessStoresRunning ==
  [][\A c \in Calls, s \in Servers :
       FinishesRunning(c, s) => store'[s] = Server(StateRunning, "")]_vars

\* C4 as amended: a fully successful bootstrap sequence leaves the
\* worker's server record running with no error message; the stored
\* record becomes running with no error message if the final store
\* update is accepted, and is left as it was if that update fails.
C4_SuccessMarksRunning ==
  [][\A c \in Calls, s \in Servers :
       FinishesRunning(c, s) =>
         /\ inst'[c][s] = Server(StateRunning, "")
         /\ wrote'[c][s] = "ok" => store'[s] = Server(StateRunning, "")
         /\ wrote'[c][s] # "ok" => store'[s] = store[s]]_vars

C4_Witness ==
  \E c \in Calls, s \in Servers :
    /\ Succeeded(c, s)
    /\ wrote[c][s] = "ok"
    /\ store[s] = Server(StateRunning, "")

\* A worker of server s finishes with an error and changes nothing that
\* belongs to another server.
FailureIsLocal ==
  \A c \in Calls, s \in Servers :
    (pc[c][s] # "done" /\ pc'[c][s] = "done" /\ lastErr'[c][s] # NilErr)
      => \A t \in Servers \ {s} :
           /\ store'[t] = store[t]
           /\ \A d \in Calls :
                /\ pc'[d][t] = pc[d][t]
                /\ inst'[d][t] = inst[d][t]
                /\ wrote'[d][t] = wrote[d][t]

\* Two workers of one batch have finished, a with an error and b
\* without: a's server is in error and b's is running.
MixedOutcome ==
  \A c \in Calls, a \in Servers, b \in Servers :
    (/\ a # b
     /\ pc[c][a] = "done" /\ lastErr[c][a] # NilErr
     /\ pc[c][b] = "done" /\ lastErr[c][b] = NilErr)
      => /\ inst[c][a].state = StateError
         /\ inst[c][b].state = StateRunning
         /\ (wrote[c][a] = "ok" /\ ~overlap) => store[a].state = StateError
         /\ (wrote[c][b] = "ok" /\ ~overlap) => store[b].state = StateRunning

\* C5: of two servers bootstrapped by one batch, one failing and one
\* succeeding, the failing one ends in error and the succeeding one in
\* running in every interleaving, and a failing worker changes nothing of
\* another server.
C5_IndependentOutcomes == []MixedOutcome /\ [][FailureIsLocal]_vars

C5_Witness ==
  \E c \in Calls, a \in Servers, b \in Servers :
    /\ a # b
    /\ pc[c][a] = "done" /\ lastErr[c][a] = ErrPull
    /\ Succeeded(c, b)
    /\ store[a].state = StateError
    /\ store[b].state = StateRunning

\* The delay before the next attempt is zero for the first attempt and
\* one minute for every later one, and another attempt is always
\* possible.
ProbeDelay ==
  \A c \in Calls, s \in Servers :
    pc[c][s] = "probe" =>
      /\ attempts[c][s] = 0 <=> interval[c][s] = 0
      /\ attempts[c][s] > 0 => interval[c][s] = Minute
      /\ ENABLED WProbe(c, s)

\* The poller loop is left only for the pull, after a list call that
\* returned no error, or through the ctx.Done case with the context's
\* error; a list call that returned an error of any kind stays in it.
ProbeExit ==
  \A c \in Calls, s \in Servers :
    pc[c][s] = "probe" =>
      /\ pc'[c][s] \in {"probe", "pull", "done"}
      /\ pc'[c][s] = "pull" =>
           ("list" \in did'[c][s] /\ lastErr'[c][s] = NilErr)
      /\ pc'[c][s] = "done" =>
           /\ ctx[c] # NilErr
           /\ lastErr'[c][s] = ctx[c]
           /\ attempts'[c][s] = attempts[c][s]
           /\ did'[c][s] = did[c][s]
      /\ (attempts'[c][s] # attempts[c][s] /\ lastErr'[c][s] # NilErr)
           => pc'[c][s] = "probe"

\* C6: the probe loop attempts first with no delay and then every
\* minute, without a retry limit, retries on any list error, and ends
\* only on a successful list call or a done context.
C6_ProbeLoop == []ProbeDelay /\ [][ProbeExit]_vars

C6_Witness ==
  \E c \in Calls, s \in Servers :
    /\ pc[c][s] = "probe"
    /\ attempts[c][s] = MaxProbes
    /\ lastErr[c][s] = ErrList
    /\ interval[c][s] = Minute

\* C7: every stored record has one of the four lifecycle states, and an
\* error message exactly when that state is error.
C7_StateAndErrorAgree ==
  \A s \in Servers :
    /\ store[s].state \in States
    /\ store[s].error # "" <=> store[s].state = StateError

C7_Witness ==
  \E a \in Servers, b \in Servers :
    /\ store[a] = Server(StateError, ErrStart)
    /\ store[b] = Server(StateRunning, "")

\* No store write moves a record back to created, or back to staging
\* from running or error.
NoBackward ==
  \A s \in Servers :
    /\ store[s].state # StateCreated => store'[s].state # StateCreated
    /\ store[s].state \in Terminal => store'[s].state \in Terminal

\* C8 as stated: transitions are one-directional over any Install
\* invocations, overlapping ones included.
C8_OneDirectional == [][NoBackward]_vars

\* C8 as amended: transitions are one-directional as long as no Install
\* invocation lists the created servers while another one is still
\* between its listing and its return.
C8_OneDirectionalSequential == [][~overlap' => NoBackward]_vars

C8_Witness ==
  /\ ~overlap
  /\ \E s \in Servers : pc[1][s] = "done" /\ store[s].state \in Terminal
  /\ \E s \in Servers : pc[2][s] = "done" /\ store[s].state \in Terminal

\* The worker stays in the poller loop for ever with a live context: no
\* list call ever succeeds and nobody cancels.
ProbesForEver(c, s) == <>[](pc[c][s] = "probe" /\ ctx[c] = NilErr)

\* C9 as stated: unless its probe fails for ever under a live context,
\* every launched worker brings the stored record to running or error.
C9_WorkerResolvesStoredRecord ==
  \A c \in Calls, s \in Servers :
    \/ ProbesForEver(c, s)
    \/ (pc[c][s] = "client") ~> (store[s].state \in Terminal)

\* C9 as amended: unless its probe fails for ever under a live context,
\* every launched worker finishes and leaves its own server record in
\* running or error; the stored record is then that record if the
\* worker's final store update was accepted.
C9_WorkerResolvesItsRecord ==
  /\ [](\A c \in Calls, s \in Servers :
          pc[c][s] = "done" => inst[c][s].state \in Terminal)
  /\ \A c \in Calls, s \in Servers :
       \/ ProbesForEver(c, s)
       \/ (pc[c][s] = "client") ~>
            (/\ pc[c][s] = "done"
             /\ inst[c][s].state \in Terminal
             /\ wrote[c][s] = "ok" => store[s] = inst[c][s])

C9_Witness ==
  \E c \in Calls, s \in Servers :
    /\ pc[c][s] = "done"
    /\ wrote[c][s] = "failed"
    /\ inst[c][s].state \in Terminal
    /\ store[s].state = StateStaging

\* The worker is in the poller loop and its context is done.
CancelledInLoop(c, s) == pc[c][s] = "probe" /\ ctx[c] # NilErr

\* A worker whose context is done while it is in the poller loop leaves
\* the loop only through the error transition with the context's error.
CancelExit ==
  \A c \in Calls, s \in Servers :
    CancelledInLoop(c, s) =>
      /\ pc'[c][s] \in {"probe", "done"}
      /\ pc'[c][s] = "done" =>
           /\ inst'[c][s] = Server(StateError, ctx[c])
           /\ wrote'[c][s] = "ok" => store'[s] = Server(StateError, ctx[c])

ClientFailed(c, s) == "client" \in did[c][s] /\ lastErr[c][s] = ErrClient

\* A worker whose client construction failed has left install through the
\* error transition and has issued no docker call.
ClientFailureIsFinal ==
  \A c \in Calls, s \in Servers :
    ClientFailed(c, s) =>
      /\ pc[c][s] = "done"
      /\ inst[c][s] = Server(StateError, ErrClient)
      /\ did[c][s] = {"client"}
      /\ attempts[c][s] = 0
      /\ (wrote[c][s] = "ok" /\ ~overlap) =>
           store[s] = Server(StateError, ErrClient)

\* A finished worker takes no further step: nothing is retried.
DoneIsDone ==
  \A c \in Calls, s \in Servers :
    pc[c][s] = "done" =>
      /\ pc'[c][s] = "done"
      /\ did'[c][s] = did[c][s]
      /\ attempts'[c][s] = attempts[c][s]
      /\ inst'[c][s] = inst[c][s]

\* C11: when constructing the client for a server fails, the worker takes
\* the error transition at once, with the construction error's text, and
\* neither retries nor issues a probe, pull, create or start call.
C11_ClientFailureEndsInError ==
  []ClientFailureIsFinal /\ [][DoneIsDone]_vars

C11_Witness ==
  \E c \in Calls, s \in Servers :
    /\ ClientFailed(c, s)
    /\ pc[c][s] = "done"
    /\ wrote[c][s] = "ok"
    /\ store[s] = Server(StateError, ErrClient)

\* The launched goroutines that have not yet returned from install.
Running == {w \in Launched : pc[w[1]][w[2]] # "done"}

\* The counter of the wait group is the number of running goroutines, so
\* that wg.Wait, which returns when the counter is zero, returns only
\* when every launched goroutine has finished.
WgCounts ==
  /\ wg = Cardinality(Running)
  /\ wg = 0 => \A w \in Launched : pc[w[1]][w[2]] = "done"

\* The counter goes up by one with each launch, down by one when a
\* goroutine leaves install on any path, and is otherwise left alone.
WgSteps ==
  /\ \A c \in Calls, s \in Servers :
       /\ (pc[c][s] = "none" /\ pc'[c][s] # "none") => wg' = wg + 1
       /\ (pc[c][s] # "done" /\ pc'[c][s] = "done") => wg' = wg - 1
  /\ wg' # wg => \E c \in Calls, s \in Servers :
                   pc'[c][s] # pc[c][s] /\ pc'[c][s] \in {"client", "done"}

\* C12: Install returns without waiting for its workers, the wait group
\* counter always equals the number of launched workers that have not
\* finished (one Add before each launch, one Done on every exit path),
\* and a wait on the group returns only when all of them have finished.
C12_WaitGroupTracksWorkers == []WgCounts /\ [][WgSteps]_vars

C12_Witness ==
  \E c \in Calls, s \in Servers, u \in Servers :
    /\ ipc[c] = "done" /\ ret[c] = NilErr
    /\ pc[c][s] = "pull"
    /\ pc[c][u] = "done" /\ lastErr[c][u] # NilErr
    /\ wg = 1

\* The volume names "b", "ro" and "C:\y".
NameB == <<"b">>
NameRO == <<"r", "o">>
NameDrive == <<"C", ":", "\\", "y">>

\* C13: for the bind specifications "a:b", "a:b:ro", "C:\x:C:\y" toVol
\* yields exactly the names "b" and "C:\y"; a trailing mode is never
\* taken for the name.
C13_ToVolExample ==
  /\ binds = <<SpecAB, SpecABRO, SpecDrive>> => vols = {NameB, NameDrive}
  /\ NameRO \notin vols

\* The entries of the list that splitVolumeParts splits into at least two
\* components.
ValidEntries(l) ==
  {k \in 1..Len(l) : Len(PartsOf[l[k]]) >= 2}

\* C14: toVol yields a result for every list; an entry without a colon,
\* such as "noseparator", has fewer than two components and is left out
\* without any effect on the result, which holds the second component of
\* every entry that has two and nothing else.
C14_ToVolSkipsMalformed ==
  /\ \A k \in 1..Len(binds) :
       RunNot(Chars(binds[k]), 1, ":") = Len(Chars(binds[k]))
         => k \notin ValidEntries(binds)
  /\ vols = toVol(SelectSeq(binds, LAMBDA e : e # SpecNoSep))
  /\ \A k \in ValidEntries(binds) :
       PartsOf[binds[k]][2] \in vols
  /\ \A v \in vols :
       \E k \in ValidEntries(binds) :
         v = PartsOf[binds[k]][2]

C14_Witness ==
  /\ binds = <<SpecAB, SpecNoSep, SpecDrive>>
  /\ vols = {NameB, NameDrive}

\* Install's staging update of server s was accepted by the store.
Staged(c, s) ==
  /\ s \in listed[c] \ Range(pending[c])
  /\ inst[c][s].state # StateCreated
  /\ store[s].state # StateCreated

\* Worker (c, s) issues the call x in this step for the first time.
Issues(c, s, x) == x \in did'[c][s] \ did[c][s]

\* Each call of a worker is issued only after the call before it returned
\* without an error, the probe also after a probe that failed, and the
\* running state is set only in the step of a start call that succeeded.
StepOrder ==
  \A c \in Calls, s \in Servers :
    /\ Issues(c, s, "client") => (Staged(c, s) /\ did[c][s] = {})
    /\ (Issues(c, s, "list") \/ attempts'[c][s] # attempts[c][s]) =>
         /\ Staged(c, s)
         /\ "client" \in did[c][s]
         /\ Later("list") \cap did[c][s] = {}
         /\ lastErr[c][s] = NilErr \/ "list" \in did[c][s]
    /\ Issues(c, s, "pull") =>
         ("list" \in did[c][s] /\ lastErr[c][s] = NilErr)
    /\ Issues(c, s, "create") =>
         ("pull" \in did[c][s] /\ lastErr[c][s] = NilErr)
    /\ Issues(c, s, "start") =>
         ("create" \in did[c][s] /\ lastErr[c][s] = NilErr)
    /\ (inst'[c][s].state = StateRunning /\ inst[c][s].state # StateRunning)
         => (Issues(c, s, "start") /\ lastErr'[c][s] = NilErr)

\* The store shows a server as running only if a worker's start call for
\* it succeeded.
RunningWasStarted ==
  \A s \in Servers :
    store[s].state = StateRunning => \E c \in Calls : Succeeded(c, s)

\* C15: the steps of a worker are strictly sequential (staging update and
\* client, probe, pull, create, start, running), each made only after
\* the one before it succeeded, and the store never shows a server as
\* running whose container start did not succeed.
C15_StepsAreSequential == []RunningWasStarted /\ [][StepOrder]_vars

C15_Witness ==
  \E c \in Calls, s \in Servers :
    /\ Succeeded(c, s)
    /\ did[c][s] = Range(Steps)
    /\ attempts[c][s] = MaxProbes
    /\ store[s].state = StateRunning

\* The workers launched for server s.
WorkersOf(s) == {c \in Calls : pc[c][s] # "none"}

\* At most one worker was launched for each server.
OneWorkerPerServer == \A s \in Servers : Cardinality(WorkersOf(s)) <= 1

\* Invocation c makes its staging update of server s in this step.
InstallWrites(c, s) ==
  /\ ipc[c] = "loop"
  /\ pending[c] # <<>>
  /\ Head(pending[c]) = s
  /\ pending'[c] # pending[c] \/ ipc'[c] = "done"

\* Install writes a server's record only while no worker of that server
\* exists: the write neither overlaps with nor follows a worker's write.
StagingBeforeWorker ==
  \A c \in Calls, s \in Servers :
    InstallWrites(c, s) =>
      \A d \in Calls : pc[d][s] = "none" /\ wrote[d][s] = "none"

\* C16 as stated: over any Install invocations, overlapping ones
\* included, at most one worker is launched for a server and Install's
\* staging write never overlaps with or follows a write of the server's
\* worker.
C16_SingleWriter == []OneWorkerPerServer /\ [][StagingBeforeWorker]_vars

\* C16 as amended: the same, as long as no Install invocation lists the
\* created servers while another one is between its listing and its
\* return.
C16_SingleWriterSequential ==
  /\ [](~overlap => OneWorkerPerServer)
  /\ [][~overlap' => StagingBeforeWorker]_vars

C16_Witness ==
  /\ ~overlap
  /\ \E a \in Servers, b \in Servers :
       /\ a # b
       /\ WorkersOf(a) = {1} /\ wrote[1][a] = "ok"
       /\ WorkersOf(b) = {2} /\ wrote[2][b] = "ok"

\* The workers that are executing line 134: between reading i.volumes and
\* assigning it.
AtLine134 ==
  {w \in Calls \X Servers : pc[w[1]][w[2]] \in {"append", "create"}}

\* C17: the installer's configuration is never written after
\* construction: the volume list is the configured one after any number
\* of bootstraps, and no two workers access an installer field at the
\* same time with one of them writing it.
C17_ConfigurationIsImmutable ==
  /\ volumes = BaseVolumes
  /\ Cardinality(AtLine134) <= 1

\* No two entries of the bind list l have the same target.
DistinctTargets(l) ==
  \A j \in ValidEntries(l), k \in ValidEntries(l) :
    j # k => PartsOf[l[j]][2] # PartsOf[l[k]][2]

\* C18: the bind list of every container configuration is the configured
\* volume list followed by the control-socket bind once, whatever was
\* bootstrapped before or is being bootstrapped at the same time, and no
\* two of its entries have the same target.
C18_BindsAreBasePlusSocket ==
  binds # <<>> =>
    /\ binds = Append(BaseVolumes, Sock)
    /\ DistinctTargets(binds)

\* C19: when ImagePull returned a stream and reading it fails, the
\* worker takes the error transition and neither creates nor starts the
\* container; a returned stream is always read and closed.
C19_StreamErrorIsPullFailure ==
  \A c \in Calls, s \in Servers :
    /\ stream[c][s] = "broken" =>
         /\ pc[c][s] = "done"
         /\ inst[c][s].state = StateError
         /\ did[c][s] \cap {"create", "start"} = {}
    /\ pc[c][s] = "append" => stream[c][s] \in {"drained", "broken"}

\* A worker exists only for a server whose staging update the store
\* accepted, and only a worker makes calls.
WorkerOnlyIfStaged ==
  \A c \in Calls, s \in Servers :
    /\ pc[c][s] # "none" => Staged(c, s)
    /\ did[c][s] # {} => pc[c][s] # "none"

\* The step that launches a worker is the step that commits the staging
\* update of its server; an iteration whose update fails launches none.
LaunchCommits ==
  \A c \in Calls, s \in Servers :
    /\ (pc[c][s] = "none" /\ pc'[c][s] # "none") =>
         /\ store'[s].state = StateStaging
         /\ store'[s] = inst'[c][s]
    /\ (InstallWrites(c, s) /\ ret'[c] = ErrStore) =>
         (pc'[c][s] = "none" /\ store'[s] = store[s])

\* C20: a worker is started for a server only after the staging update
\* of that server was committed to the store: none runs, and no remote
\* call is made, for a server whose stored state is still created or
\* whose staging update failed.
C20_WorkerOnlyAfterStaging == []WorkerOnlyIfStaged /\ [][LaunchCommits]_vars

C20_Witness ==
  \E c \in Calls, s \in Servers, u \in Servers :
    /\ pc[c][s] = "start"
    /\ store[s].state = StateStaging
    /\ ipc[c] = "done" /\ ret[c] = ErrStore
    /\ u \in listed[c] /\ pc[c][u] = "none"
    /\ store[u].state = StateCreated

====
